---- MODULE Spec2Model ----
(***************************************************************************)
(* wiki_scrapper.build_graph as a state machine: the per-language bounded  *)
(* BFS (red edges), the translation stage (blue edges, new vertices), the  *)
(* clique pass over the blue edge list, the assembly of the networkx graph *)
(* and the perturbation pass (inversion, removal).                         *)
(*                                                                         *)
(* The wiki (page header links, interlanguage links) and the keyword       *)
(* arguments are inputs fixed by Init.  A Python set of str is iterated in *)
(* hash order, which changes from process to process: every iteration of a *)
(* set picks one of its permutations.  Lists, deques and dicts keep their  *)
(* insertion order, as networkx's node and adjacency dicts do.             *)
(***************************************************************************)
EXTENDS Integers, Sequences, FiniteSets, TLC

(* ------------------------------ bounds -------------------------------- *)

\* largest max_pages_per_lang tried
MaxPages == 3
\* largest max_links tried
MaxLinks == 2
\* most links in the headers of all pages of a wiki together
MaxWikiLinks == 2
\* most interlanguage links of all pages together
MaxWikiLangLinks == 2
\* random.random() is drawn from {0, 1/DrawRes, ..., (DrawRes-1)/DrawRes};
\* a chance is one of {0, 1/DrawRes, ..., 1}
DrawRes == 2
\* most interlanguage links of all pages of the three-language wiki together
MaxChainLangLinks == 4
\* max_pages_per_lang of the scenario of the specification, and the default
\* of max_links (line 41)
ScenarioPages == 5
ScenarioLinks == 5
MaxHeaderLinks == 3
MaxCapLinks == 4

IDs == {"A", "B", "C"}
\* characters that should not appear in a page title (line 12)
BAD_CHARS == <<".", "#", ",", ":">>
\* char in link, for a string of one character
Contains(char, link) == \E k \in 1..Len(link) : SubSeq(link, k, k) = char
\* any(char in link for char in BAD_CHARS)
HasBadChar(link) == \E i \in 1..Len(BAD_CHARS) : Contains(BAD_CHARS[i], link)
\* the title with a bad character that the headers of the inputs may hold
BadSamples == {"a.b"}
Langs == {"en", "fr"}
NoLang == "none"
None == "None"

(* ------------------------------ helpers ------------------------------- *)

Min(a, b) == IF a < b THEN a ELSE b

Range(s) == {s[k] : k \in 1..Len(s)}

\* the orders in which a Python set can be iterated
Perms(S) == {s \in [1..Cardinality(S) -> S] :
               \A p, q \in 1..Cardinality(S) : p # q => s[p] # s[q]}

\* list.remove(x): drops the first occurrence
RECURSIVE RemoveFirst(_, _)
RemoveFirst(s, x) ==
    IF s = <<>> THEN <<>>
    ELSE IF Head(s) = x THEN Tail(s)
    ELSE <<Head(s)>> \o RemoveFirst(Tail(s), x)

\* the sequences over S of length at most n
SeqsUpTo(S, n) == UNION {[1..k -> S] : k \in 0..n}

(* ---------------------------- the wiki -------------------------------- *)

\* get_section_links: the titles linked in the header of a page, without the
\* titles that hold a bad character and without the page's own title
DropBadSelf(raw, title) ==
    SelectSeq(SelectSeq(raw, LAMBDA l : ~HasBadChar(l)), LAMBDA l : l # title)

(* ------------------------- the networkx graph ------------------------- *)

\* nx.Graph(): nodes in insertion order, the 'lang' attribute of each node,
\* the neighbours of each node in insertion order, the colour of each edge
\* (an edge is the set of its endpoints, one element for a self-loop)
EmptyGraph == [nodes |-> <<>>, lang |-> <<>>, adj |-> <<>>, color |-> <<>>]

NodeSet(g) == Range(g.nodes)
EdgeSet(g) == DOMAIN g.color

\* G.add_node(v, lang=l): a new node goes last, a known node keeps its place
\* and takes the new attribute
add_node(g, v, l) ==
    IF v \in NodeSet(g)
    THEN [g EXCEPT !.lang = [n \in NodeSet(g) |-> IF n = v THEN l ELSE g.lang[n]]]
    ELSE [g EXCEPT !.nodes = Append(g.nodes, v),
                   !.lang = (v :> l) @@ g.lang,
                   !.adj = (v :> <<>>) @@ g.adj]

RECURSIVE add_nodes(_, _, _)
add_nodes(g, vs, l) ==
    IF vs = <<>> THEN g ELSE add_nodes(add_node(g, Head(vs), l), Tail(vs), l)

\* a node that an edge brings in has no attribute
EnsureNode(g, v) == IF v \in NodeSet(g) THEN g ELSE add_node(g, v, NoLang)

AddNbr(adj, u, v) ==
    IF v \in Range(adj[u]) THEN adj ELSE [adj EXCEPT ![u] = Append(adj[u], v)]

\* a slip: a known edge keeps the colour it has
add_edge_keeping(g, u, v, c) ==
    LET g1 == EnsureNode(EnsureNode(g, u), v)
    IN [g1 EXCEPT !.adj = AddNbr(AddNbr(g1.adj, u, v), v, u),
                  !.color = g1.color @@ ({u, v} :> c)]

\* G.add_edge(u, v, color=c): the pair is one edge whatever its orientation,
\* a known edge keeps its place and takes the new colour
add_edge(g, u, v, c) ==
    LET g1 == EnsureNode(EnsureNode(g, u), v)
    IN [g1 EXCEPT !.adj = AddNbr(AddNbr(g1.adj, u, v), v, u),
                  !.color = ({u, v} :> c) @@ g1.color]

RECURSIVE add_edges_from(_, _, _)
add_edges_from(g, es, c) ==
    IF es = <<>> THEN g
    ELSE add_edges_from(add_edge(g, Head(es)[1], Head(es)[2], c), Tail(es), c)

\* list(G.edges): for each node in order, its neighbours in order that were
\* not reported from the other side
RECURSIVE EdgesOfNode(_, _, _)
EdgesOfNode(n, nbrs, seen) ==
    IF nbrs = <<>> THEN <<>>
    ELSE (IF Head(nbrs) \in seen THEN <<>> ELSE << <<n, Head(nbrs)>> >>)
         \o EdgesOfNode(n, Tail(nbrs), seen)

RECURSIVE EdgesFrom(_, _, _)
EdgesFrom(g, k, seen) ==
    IF k > Len(g.nodes) THEN <<>>
    ELSE EdgesOfNode(g.nodes[k], g.adj[g.nodes[k]], seen)
         \o EdgesFrom(g, k + 1, seen \cup {g.nodes[k]})

edges(g) == EdgesFrom(g, 1, {})

\* a slip: the edge stays
_remove_edge_keeping(g, edge) == g

\* _remove_edge: G.remove_edge(u, v)
_remove_edge(g, edge) ==
    LET u == edge[1]
        v == edge[2]
        e == {u, v}
        drop(s, x) == SelectSeq(s, LAMBDA y : y # x)
    IN [g EXCEPT !.adj = [n \in DOMAIN g.adj |->
                            IF n = u THEN drop(g.adj[n], v)
                            ELSE IF n = v THEN drop(g.adj[n], u)
                            ELSE g.adj[n]],
                 !.color = [x \in EdgeSet(g) \ {e} |-> g.color[x]]]

\* a slip: the edge is deleted instead of recoloured
_invert_edge_deleting(g, edge) == _remove_edge(g, edge)

\* _invert_edge
_invert_edge(g, edge) ==
    LET e == {edge[1], edge[2]}
    IN IF g.color[e] = "red" THEN [g EXCEPT !.color[e] = "blue"]
       ELSE [g EXCEPT !.color[e] = "red"]


(* ------------------------------- state -------------------------------- *)

VARIABLES
    kwargs,             \* the keyword arguments of build_graph (lines 32-41)
    wiki,               \* the pages: header links and interlanguage links
    rng,                \* the random module: seeded or not, the draws made
    run,                \* 1 in the first run of the program, 2 in the second
    first_run,          \* what the first run assembled and returned
    pc,                 \* the position in build_graph
    G,                  \* the networkx graph
    red_edges,          \* list of pairs
    blue_edges,         \* list of pairs
    vertices_in_langs,  \* language -> set of titles
    selected_lang,      \* index of the language being crawled
    queue,              \* the deque of the BFS
    vertices_in_lang,   \* the titles crawled in the current language
    subject,            \* the page being expanded
    link_titles,        \* the links of subject still to follow
    new_vertices,       \* set of (translation, language)
    translations,       \* language -> list of the translations into it
    i,                  \* loop index: the node being translated, the row of
                        \* the clique pass, the edge being perturbed
    n_rows,             \* range(len(blue_edges)) of the clique pass
    edge_list,          \* list(G.edges), the snapshot the perturbation walks
    assembled,          \* the graph as assembled, before the perturbation
    red_mark,           \* len(red_edges) when the crawl of the language began
    translation_pairs,  \* the pairs (vertex, translation) of line 143
    expansions,         \* the subjects popped from the queue in this crawl
    crawl_result,       \* the vertices and red edges when step 1 ended
    args,               \* the arguments of a call of scrapper.get_connections
                        \* or of excavator.get_connection_pages
    visited,            \* scrapper: the set visited
    page_queue,         \* scrapper: the deque queue of get_connections
    expanded,           \* scrapper: the titles popped from that queue
    connections,        \* scrapper, excavator: the list connections
    vertices,           \* excavator: the set vertices
    links_Q,            \* excavator: the list links_Q
    translation_lists   \* excavator: the list translations

inputs == <<kwargs, wiki>>
crawl_vars == <<selected_lang, queue, vertices_in_lang, subject, link_titles>>
trans_vars == <<new_vertices, translations>>
runs == <<rng, run, first_run>>
vars == <<kwargs, wiki, rng, run, first_run, pc, G, red_edges, blue_edges,
          vertices_in_langs, selected_lang, queue, vertices_in_lang, subject,
          link_titles, new_vertices, translations, i, n_rows, edge_list,
          assembled, red_mark, translation_pairs, expansions, crawl_result,
          args, visited, page_queue, expanded, connections, vertices, links_Q,
          translation_lists>>
\* the state of the crawls of scrapper.py and excavator.py
calls == <<args, visited, page_queue, expanded, connections, vertices, links_Q,
           translation_lists>>
history == <<assembled, red_mark, translation_pairs, expansions, crawl_result>>

languages == kwargs.langs
starting_points == kwargs.starting_points
max_pages_per_lang == kwargs.max_pages_per_lang
edge_removal_chance == kwargs.removal_chance
edge_inversion_chance == kwargs.inversion_chance
max_bfs_links == kwargs.max_links

\* get_section_links(page, site) for the page `title` of the wiki `lang`
get_section_links(lang, title) == DropBadSelf(wiki.header[<<lang, title>>], title)

\* page.iterlanglinks() filtered to the configured languages and turned into
\* a dict (lines 132-134): one title per language, in the order of the first
\* link of each language, the last link of a language giving its title
RECURSIVE LangLinkDict(_, _)
LangLinkDict(links, out) ==
    IF links = <<>> THEN out
    ELSE LET l == Head(links)
             at == {k \in 1..Len(out) : out[k][1] = l[1]}
         IN LangLinkDict(Tail(links),
                IF at = {} THEN Append(out, l)
                ELSE [k \in 1..Len(out) |-> IF k \in at THEN l ELSE out[k]])

langlinks(lang, title) ==
    LangLinkDict(SelectSeq(wiki.langlinks[<<lang, title>>],
                           LAMBDA l : l[1] \in Range(languages)), <<>>)

(* ------------------------------ inputs -------------------------------- *)

\* the link entries <<page, title>> a family of wikis draws from
TargetsOf(entries, page) ==
    LET mine == SelectSeq(entries, LAMBDA e : e[1] = page)
    IN [k \in 1..Len(mine) |-> mine[k][2]]

\* the wikis over the pages P whose headers hold at most nl links drawn from
\* the entries HE and whose pages hold at most nt interlanguage links drawn
\* from the entries LE (<<page, <<language, title>>>>)
Wikis(P, HE, nl, LE, nt) ==
    {[header |-> [p \in P |-> TargetsOf(he, p)],
      langlinks |-> [p \in P |-> TargetsOf(le, p)]] :
        he \in SeqsUpTo(HE, nl), le \in SeqsUpTo(LE, nt)}

\* the titles of the pages of language l among the pages P
TitlesOf(P, l) == {p[2] : p \in {q \in P : q[1] = l}}
\* a header links to other pages of its language
CleanLinks(P) == {e \in P \X {p[2] : p \in P} :
                    e[2] # e[1][2] /\ e[2] \in TitlesOf(P, e[1][1])}
\* ... or to any title, the page's own and a bad one included
RawLinks(P) == P \X ({p[2] : p \in P} \cup BadSamples)
\* an interlanguage link leads to a page of another language
LangLinks(P) == {e \in P \X P : e[2][1] # e[1][1]}

\* every title is a page of both languages
Pages == Langs \X IDs
EnPages == {"en"} \X IDs
\* three languages, a title is a page of one language
ChainLangs == <<"en", "fr", "es">>
ChainPages == {<<"en", "A">>, <<"en", "B">>, <<"fr", "C">>, <<"es", "D">>, <<"es", "E">>}
ChainStarts == <<"A", "C", "D">>

Chances == 0..DrawRes

KwArgs(ls, sp, mp, ml, rc, ic) ==
    [langs |-> ls, starting_points |-> sp, max_pages_per_lang |-> mp,
     max_links |-> ml, removal_chance |-> rc, inversion_chance |-> ic]

\* two languages, many links, no translation, no perturbation
CrawlInputs ==
    {<<KwArgs(<<"en", "fr">>, <<"A", s>>, mp, ml, 0, 0), w>> :
        s \in {"A", "B"}, mp \in 1..MaxPages, ml \in 0..MaxLinks,
        w \in Wikis(Pages, CleanLinks(Pages), MaxWikiLinks, {}, 0)}

\* one language, headers that link to themselves and to bad titles
RawInputs ==
    {<<KwArgs(<<"en">>, <<"A">>, mp, ml, 0, 0), w>> :
        mp \in 1..MaxPages, ml \in 0..MaxLinks,
        w \in Wikis(EnPages, RawLinks(EnPages), MaxWikiLinks, {}, 0)}

\* two languages, few links, many translations
TranslationInputs ==
    {<<KwArgs(<<"en", "fr">>, <<"A", s>>, MaxPages, MaxLinks, 0, 0), w>> :
        s \in {"A", "B"},
        w \in Wikis(Pages, CleanLinks(Pages), 1, LangLinks(Pages), MaxWikiLangLinks)}

\* a small wiki under every pair of chances
PerturbInputs ==
    {<<KwArgs(<<"en", "fr">>, <<"A", "B">>, MaxPages, MaxLinks, rc, ic), w>> :
        rc \in Chances, ic \in Chances,
        w \in Wikis(Pages, CleanLinks(Pages), 1, LangLinks(Pages), 1)}

\* a caller that seeds the random module: the links and the translation of
\* the page A of en, chances 0 and 1/DrawRes
StartPage == {<<"en", "A">>}
RerunInputs ==
    {<<KwArgs(<<"en", "fr">>, <<"A", "B">>, MaxPages, MaxLinks, rc, ic), w>> :
        rc \in {0, 1}, ic \in {0, 1},
        w \in Wikis(Pages, {e \in CleanLinks(Pages) : e[1] \in StartPage}, MaxWikiLinks,
                    {e \in LangLinks(Pages) : e[1] \in StartPage}, 1)}

\* the scenario of the specification: en, fr, A -> C, A = B
ScenarioInputs ==
    {<<KwArgs(<<"en", "fr">>, <<"A", "B">>, ScenarioPages, ScenarioLinks, 0, 0),
       [header |-> [p \in Pages |-> IF p = <<"en", "A">> THEN <<"C">> ELSE <<>>],
        langlinks |-> [p \in Pages |-> IF p = <<"en", "A">>
                                        THEN << <<"fr", "B">> >> ELSE <<>>]]>>}

\* the interlanguage links a page of P can hold: at most one per language
LangLinkLists(P, p) ==
    {s \in SeqsUpTo({q \in P : q[1] # p[1]}, 2) :
        \A x, y \in 1..Len(s) : x # y => s[x][1] # s[y][1]}

\* the tables of at most n interlanguage links of the three-language wiki
ChainTables(n) ==
    {t \in {[p \in ChainPages |->
               CASE p = <<"en", "A">> -> a
                 [] p = <<"en", "B">> -> b
                 [] p = <<"fr", "C">> -> c
                 [] p = <<"es", "D">> -> d
                 [] p = <<"es", "E">> -> e] :
             a \in LangLinkLists(ChainPages, <<"en", "A">>),
             b \in LangLinkLists(ChainPages, <<"en", "B">>),
             c \in LangLinkLists(ChainPages, <<"fr", "C">>),
             d \in LangLinkLists(ChainPages, <<"es", "D">>),
             e \in LangLinkLists(ChainPages, <<"es", "E">>)} :
        Len(t[<<"en", "A">>]) + Len(t[<<"en", "B">>]) + Len(t[<<"fr", "C">>])
          + Len(t[<<"es", "D">>]) + Len(t[<<"es", "E">>]) <= n}

\* three languages, the one link D -> E, chains of translations
ChainInputs ==
    {<<KwArgs(ChainLangs, ChainStarts, MaxPages, MaxLinks, 0, 0),
       [header |-> [p \in ChainPages |-> IF p = <<"es", "D">> THEN <<"E">> ELSE <<>>],
        langlinks |-> t]>> : t \in ChainTables(MaxChainLangLinks)}

NoCrawl == [nodes |-> {}, red_edges |-> <<>>]

\* the locals of build_graph before its first step (lines 43-46)
Locals(ls) ==
    /\ G = EmptyGraph
    /\ red_edges = <<>>
    /\ blue_edges = <<>>
    /\ vertices_in_langs = [l \in Range(ls) |-> {}]
    /\ selected_lang = 1
    /\ queue = <<>>
    /\ vertices_in_lang = {}
    /\ subject = None
    /\ link_titles = <<>>
    /\ new_vertices = {}
    /\ translations = [l \in Range(ls) |-> <<>>]
    /\ i = 0
    /\ n_rows = 0
    /\ edge_list = <<>>
    /\ assembled = EmptyGraph
    /\ red_mark = 0
    /\ translation_pairs = <<>>
    /\ expansions = <<>>
    /\ crawl_result = NoCrawl

NoArgs == [starting_point |-> None, max_pages |-> 0]

\* no crawl of scrapper.py or excavator.py is under way
NoCalls ==
    /\ args = NoArgs
    /\ visited = {}
    /\ page_queue = <<>>
    /\ expanded = <<>>
    /\ connections = <<>>
    /\ vertices = {}
    /\ links_Q = <<>>
    /\ translation_lists = <<>>

Start(in, seeded) ==
    /\ kwargs = in[1]
    /\ wiki = in[2]
    /\ rng = [seeded |-> seeded, draws |-> <<>>]
    /\ run = 1
    /\ first_run = <<>>
    /\ pc = "crawl"
    /\ Locals(in[1].langs)
    /\ NoCalls

Init ==
    \E in \in CrawlInputs \cup RawInputs \cup TranslationInputs
               \cup PerturbInputs \cup ScenarioInputs :
        Start(in, FALSE)

InitRerun == \E in \in RerunInputs : Start(in, TRUE)

InitChain == \E in \in ChainInputs : Start(in, FALSE)

(* ---------------------- step 1: the crawl (60-109) -------------------- *)

\* zip(starting_points, range(len(languages)))
NumCrawls == Min(Len(starting_points), Len(languages))

\* a slip: the budget test lets one more vertex in
HasBudgetInclusive(vs) == Cardinality(vs) <= max_pages_per_lang

\* the budget test of both loops of the BFS (lines 67 and 80)
HasBudget(vs) == Cardinality(vs) < max_pages_per_lang

\* a slip: the slice stops one link early
TruncateOneShort(links) == SubSeq(links, 1, Min(max_bfs_links, Len(links)) - 1)

\* link_titles[:min(max_bfs_links, len(link_titles))]
Truncate(links) == SubSeq(links, 1, Min(max_bfs_links, Len(links)))

\* lines 60-66: the next pair of the zip, or the end of step 1
CrawlLanguage ==
    /\ pc = "crawl"
    /\ IF selected_lang <= NumCrawls
       THEN /\ queue' = <<starting_points[selected_lang]>>
            /\ vertices_in_lang' = {}
            /\ red_mark' = Len(red_edges)
            /\ expansions' = <<>>
            /\ pc' = "bfs"
            /\ i' = i
            /\ UNCHANGED crawl_result
       ELSE /\ pc' = IF Len(languages) > 1 THEN "translate" ELSE "assemble"
            /\ i' = 1
            /\ crawl_result' = [nodes |-> NodeSet(G), red_edges |-> red_edges]
            /\ UNCHANGED <<queue, vertices_in_lang, red_mark, expansions>>
    /\ UNCHANGED <<inputs, calls, runs, G, red_edges, blue_edges, vertices_in_langs,
                   selected_lang, subject, link_titles, trans_vars, n_rows,
                   edge_list, assembled, translation_pairs>>

\* lines 67-77: one turn of the outer loop up to the inner loop
Dequeue ==
    /\ pc = "bfs"
    /\ queue # <<>>
    /\ HasBudget(vertices_in_lang)
    /\ subject' = Head(queue)
    /\ queue' = Tail(queue)
    /\ vertices_in_lang' = vertices_in_lang \cup {Head(queue)}
    /\ link_titles' = Truncate(get_section_links(languages[selected_lang], Head(queue)))
    /\ expansions' = Append(expansions, Head(queue))
    /\ pc' = "links"
    /\ UNCHANGED <<inputs, calls, runs, G, red_edges, blue_edges, vertices_in_langs,
                   selected_lang, trans_vars, i, n_rows, edge_list, assembled,
                   red_mark, translation_pairs, crawl_result>>

\* a slip: every link counts as new
UnseenAlways(link, vs) == TRUE

\* line 82: if link not in vertices_in_lang
Unseen(link, vs) == link \notin vs

\* lines 80-85: one turn of the inner loop
FollowLink ==
    /\ pc = "links"
    /\ HasBudget(vertices_in_lang)
    /\ link_titles # <<>>
    /\ LET link == Head(link_titles)
       IN /\ link_titles' = Tail(link_titles)
          /\ IF Unseen(link, vertices_in_lang)
             THEN /\ vertices_in_lang' = vertices_in_lang \cup {link}
                  /\ queue' = Append(queue, link)
             ELSE UNCHANGED <<vertices_in_lang, queue>>
          /\ red_edges' = Append(red_edges, <<subject, link>>)
    /\ UNCHANGED <<inputs, calls, runs, pc, G, blue_edges, vertices_in_langs,
                   selected_lang, subject, trans_vars, i, n_rows, edge_list,
                   history>>

\* line 80: the inner loop ends
LinksDone ==
    /\ pc = "links"
    /\ ~(HasBudget(vertices_in_lang) /\ link_titles # <<>>)
    /\ pc' = "bfs"
    /\ UNCHANGED <<inputs, calls, runs, G, red_edges, blue_edges, vertices_in_langs,
                   crawl_vars, trans_vars, i, n_rows, edge_list, history>>

\* a slip: only the links under the cap of the BFS
CappedLinks(lang, vertex, crawled) ==
    LET links == SelectSeq(Truncate(get_section_links(lang, vertex)),
                           LAMBDA l : l \in crawled)
    IN [k \in 1..Len(links) |-> <<vertex, links[k]>>]

\* a slip: every link of the vertex, crawled or not
AllLinks(lang, vertex, crawled) ==
    LET links == get_section_links(lang, vertex)
    IN [k \in 1..Len(links) |-> <<vertex, links[k]>>]

\* lines 99-103 for one vertex: its links that were crawled
CrawledLinks(lang, vertex, crawled) ==
    LET links == SelectSeq(get_section_links(lang, vertex), LAMBDA l : l \in crawled)
    IN [k \in 1..Len(links) |-> <<vertex, links[k]>>]

RECURSIVE LinksAmong(_, _, _)
LinksAmong(lang, order, crawled) ==
    IF order = <<>> THEN <<>>
    ELSE CrawledLinks(lang, Head(order), crawled)
         \o LinksAmong(lang, Tail(order), crawled)

\* lines 67 and 87-105: the BFS of the language ends; its vertices enter the
\* graph and the links among them are recorded, both in the iteration order
\* of the set
AddVertices ==
    /\ pc = "bfs"
    /\ ~(queue # <<>> /\ HasBudget(vertices_in_lang))
    /\ \E order \in Perms(vertices_in_lang) :
         /\ G' = add_nodes(G, order, languages[selected_lang])
         /\ red_edges' = red_edges \o
              LinksAmong(languages[selected_lang], order, vertices_in_lang)
    /\ queue' = <<>>
    /\ vertices_in_langs' =
         [vertices_in_langs EXCEPT ![languages[selected_lang]] = vertices_in_lang]
    /\ selected_lang' = selected_lang + 1
    /\ pc' = "crawl"
    /\ UNCHANGED <<inputs, calls, runs, blue_edges, vertices_in_lang, subject,
                   link_titles, trans_vars, i, n_rows, edge_list, history>>

(* ---------------- step 2: the translations (116-190) ------------------ *)

\* lines 137-144 for the dict of one vertex
RECURSIVE Targets(_)
Targets(items) ==
    IF items = <<>> THEN <<>> ELSE <<Head(items)[2]>> \o Targets(Tail(items))

\* a variant: only the translations that are vertices of the graph
PairsOfKnown(vertex, items) ==
    LET known == SelectSeq(items, LAMBDA it : it[2] \in NodeSet(G))
    IN [k \in 1..Len(known) |-> <<vertex, known[k][2]>>]

PairsOf(vertex, items) ==
    [k \in 1..Len(items) |-> <<vertex, items[k][2]>>]

\* lines 126-144: one vertex of G.nodes
TranslateVertex ==
    /\ pc = "translate"
    /\ i <= Len(G.nodes)
    /\ LET vertex == G.nodes[i]
           lang == G.lang[vertex]
           items == langlinks(lang, vertex)
       IN /\ new_vertices' =
                new_vertices \cup {<<items[k][2], items[k][1]>> : k \in 1..Len(items)}
          /\ blue_edges' = blue_edges \o PairsOf(vertex, items)
          /\ translations' =
                [l \in DOMAIN translations |->
                    translations[l] \o Targets(SelectSeq(items, LAMBDA it : it[1] = l))]
    /\ i' = i + 1
    /\ UNCHANGED <<inputs, calls, runs, pc, G, red_edges, vertices_in_langs, crawl_vars,
                   n_rows, edge_list, history>>

RECURSIVE add_new_vertices(_, _)
add_new_vertices(g, vs) ==
    IF vs = <<>> THEN g
    ELSE add_new_vertices(add_node(g, Head(vs)[1], Head(vs)[2]), Tail(vs))

\* a slip: the links of the translations are not looked up
LinksOfNoTranslation(lang, ts) == <<>>

\* lines 159-167 for the translations into one language
RECURSIVE LinksOfTranslations(_, _)
LinksOfTranslations(lang, ts) ==
    IF ts = <<>> THEN <<>>
    ELSE CrawledLinks(lang, Head(ts), vertices_in_langs[lang])
         \o LinksOfTranslations(lang, Tail(ts))

\* lines 157-167: the dict translations in the order of its keys
RECURSIVE TranslationLinks(_)
TranslationLinks(ls) ==
    IF ls = <<>> THEN <<>>
    ELSE LinksOfTranslations(Head(ls), translations[Head(ls)])
         \o TranslationLinks(Tail(ls))

\* the keys of {lang_: [] for lang_ in languages}: each language once
RECURSIVE Keys(_, _)
Keys(ls, out) ==
    IF ls = <<>> THEN out
    ELSE Keys(Tail(ls), IF Head(ls) \in Range(out) THEN out ELSE Append(out, Head(ls)))

\* lines 146-170: the translations enter the graph in the iteration order of
\* the set new_vertices, the links from a translation to the crawled pages
\* of its language become red edges, and range(len(blue_edges)) is taken
AddTranslations ==
    /\ pc = "translate"
    /\ i > Len(G.nodes)
    /\ \E order \in Perms(new_vertices) : G' = add_new_vertices(G, order)
    /\ red_edges' = red_edges \o TranslationLinks(Keys(languages, <<>>))
    /\ n_rows' = Len(blue_edges)
    /\ translation_pairs' = blue_edges
    /\ i' = 1
    /\ pc' = "clique"
    /\ UNCHANGED <<inputs, calls, runs, blue_edges, vertices_in_langs, crawl_vars,
                   trans_vars, edge_list, assembled, red_mark, expansions,
                   crawl_result>>

\* a slip: the last case (b == d) is missing
DerivedThreeCases(a, b, c, d) ==
    IF b = c THEN << <<a, d>> >>
    ELSE IF a = d THEN << <<c, b>> >>
    ELSE IF a = c THEN << <<b, d>> >>
    ELSE <<>>

\* lines 174-185: what the pair (c, d) adds to the list when met from (a, b)
Derived(a, b, c, d) ==
    IF b = c THEN << <<a, d>> >>
    ELSE IF a = d THEN << <<c, b>> >>
    ELSE IF a = c THEN << <<b, d>> >>
    ELSE IF b = d THEN << <<a, c>> >>
    ELSE <<>>

\* lines 172-185: the inner loop, range(i + 1, len(blue_edges)) taken when it
\* starts, the pairs it appends not met in this turn
RECURSIVE CliqueRowFrom(_, _, _, _)
CliqueRowFrom(list, row, j, last) ==
    IF j > last THEN list
    ELSE CliqueRowFrom(
            list \o Derived(list[row][1], list[row][2], list[j][1], list[j][2]),
            row, j + 1, last)

\* lines 170-185: one turn of the outer loop
CliqueRow ==
    /\ pc = "clique"
    /\ i <= n_rows
    /\ blue_edges' = CliqueRowFrom(blue_edges, i, i + 1, Len(blue_edges))
    /\ i' = i + 1
    /\ UNCHANGED <<inputs, calls, runs, pc, G, red_edges, vertices_in_langs, crawl_vars,
                   trans_vars, n_rows, edge_list, history>>

\* lines 188-190: the list iterator moves on by index while the list shrinks
RECURSIVE RemoveSelfLinks(_, _)
RemoveSelfLinks(list, k) ==
    IF k > Len(list) THEN list
    ELSE IF list[k][1] = list[k][2]
         THEN RemoveSelfLinks(RemoveFirst(list, list[k]), k + 1)
         ELSE RemoveSelfLinks(list, k + 1)

\* lines 187-190
RemoveSelfLinksStep ==
    /\ pc = "clique"
    /\ i > n_rows
    /\ blue_edges' = RemoveSelfLinks(blue_edges, 1)
    /\ pc' = "assemble"
    /\ UNCHANGED <<inputs, calls, runs, G, red_edges, vertices_in_langs, crawl_vars,
                   trans_vars, i, n_rows, edge_list, history>>

(* ----------------------- assembly (192-194, 206) ---------------------- *)

\* lines 193-194 and the list(G.edges) of line 206
Assemble ==
    /\ pc = "assemble"
    /\ G' = add_edges_from(add_edges_from(G, red_edges, "red"), blue_edges, "blue")
    /\ assembled' = G'
    /\ edge_list' = edges(G')
    /\ i' = 1
    /\ pc' = "perturb"
    /\ UNCHANGED <<inputs, calls, runs, red_edges, blue_edges, vertices_in_langs,
                   crawl_vars, trans_vars, n_rows, red_mark, translation_pairs,
                   expansions, crawl_result>>

(* -------------------- step 3: perturbation (206-210) ------------------ *)

Draws == 0..(DrawRes - 1)

\* a slip: <= for <
BernoulliInclusive(draw, chance) == draw <= chance

\* random.random() < chance, both in units of 1/DrawRes
Bernoulli(draw, chance) == draw < chance

\* the draw a seeded second run repeats at position k of its sequence
Replayed(k, d) ==
    (run = 2 /\ rng.seeded /\ k <= Len(first_run.draws)) => d = first_run.draws[k]

\* lines 207-210 for one edge of the snapshot
PerturbEdge ==
    /\ pc = "perturb"
    /\ i <= Len(edge_list)
    /\ \E d1, d2 \in Draws :
         LET edge == edge_list[i]
             inverted == IF Bernoulli(d1, edge_inversion_chance)
                         THEN _invert_edge(G, edge) ELSE G
         IN /\ Replayed(2 * i - 1, d1)
            /\ Replayed(2 * i, d2)
            /\ G' = IF Bernoulli(d2, edge_removal_chance)
                    THEN _remove_edge(inverted, edge) ELSE inverted
            /\ rng' = IF rng.seeded
                      THEN [rng EXCEPT !.draws = rng.draws \o <<d1, d2>>]
                      ELSE rng
    /\ i' = i + 1
    /\ UNCHANGED <<inputs, calls, run, first_run, pc, red_edges, blue_edges,
                   vertices_in_langs, crawl_vars, trans_vars, n_rows, edge_list,
                   history>>

\* line 260: return G
Return ==
    /\ pc = "perturb"
    /\ i > Len(edge_list)
    /\ pc' = "done"
    /\ UNCHANGED <<inputs, calls, runs, G, red_edges, blue_edges, vertices_in_langs,
                   crawl_vars, trans_vars, i, n_rows, edge_list, history>>

\* the program is run again on the same inputs, by a caller that seeds the
\* random module with the same seed: a new process, hence new hash orders,
\* and the same sequence of draws
Rerun ==
    /\ pc = "done"
    /\ run = 1
    /\ rng.seeded
    /\ first_run' = [assembled |-> assembled, G |-> G, draws |-> rng.draws]
    /\ run' = 2
    /\ rng' = [rng EXCEPT !.draws = <<>>]
    /\ pc' = "crawl"
    /\ G' = EmptyGraph
    /\ red_edges' = <<>>
    /\ blue_edges' = <<>>
    /\ vertices_in_langs' = [l \in Range(languages) |-> {}]
    /\ selected_lang' = 1
    /\ queue' = <<>>
    /\ vertices_in_lang' = {}
    /\ subject' = None
    /\ link_titles' = <<>>
    /\ new_vertices' = {}
    /\ translations' = [l \in Range(languages) |-> <<>>]
    /\ i' = 0
    /\ n_rows' = 0
    /\ edge_list' = <<>>
    /\ assembled' = EmptyGraph
    /\ red_mark' = 0
    /\ translation_pairs' = <<>>
    /\ expansions' = <<>>
    /\ crawl_result' = NoCrawl
    /\ UNCHANGED <<inputs, calls>>

Next ==
    \/ CrawlLanguage
    \/ Dequeue
    \/ FollowLink
    \/ LinksDone
    \/ AddVertices
    \/ TranslateVertex
    \/ AddTranslations
    \/ CliqueRow
    \/ RemoveSelfLinksStep
    \/ Assemble
    \/ PerturbEdge
    \/ Return

Spec == Init /\ [][Next]_vars

SpecChain == InitChain /\ [][Next]_vars

\* one language, one link followed per page, more links than the cap
CapInputs ==
    {<<KwArgs(<<"en">>, <<"A">>, MaxPages, 1, 0, 0), w>> :
        w \in Wikis(EnPages, CleanLinks(EnPages), MaxCapLinks, {}, 0)}

\* the crawls alone: links with cycles, the scenario for the later steps
InitCrawl ==
    \E in \in CrawlInputs \cup RawInputs \cup CapInputs \cup ScenarioInputs :
        Start(in, FALSE)

\* one turn of the loops of lines 67-105
CrawlStep == Dequeue \/ FollowLink \/ LinksDone \/ AddVertices

\* build_graph is one sequential call: a step of the crawl that can be taken
\* is taken
SpecCrawl == InitCrawl /\ [][Next]_vars /\ WF_vars(CrawlStep)

\* one run of a caller that seeds the random module, under every pair of
\* chances: the draws are on record
InitSeeded == \E in \in PerturbInputs : Start(in, TRUE)

SpecSeeded == InitSeeded /\ [][Next]_vars

NextRerun == Next \/ Rerun

SpecRerun == InitRerun /\ [][NextRerun]_vars

(* ------------- scrapper.get_connections (scrapper.py 14-57) ----------- *)

\* build_graph of wiki_scrapper.py is not called
build == <<kwargs, runs, G, red_edges, blue_edges, vertices_in_langs, crawl_vars,
           trans_vars, i, n_rows, edge_list, history>>

NotBuilding(w) ==
    /\ kwargs = KwArgs(<<>>, <<>>, 0, 0, 0, 0)
    /\ wiki = w
    /\ rng = [seeded |-> FALSE, draws |-> <<>>]
    /\ run = 1
    /\ first_run = <<>>
    /\ Locals(<<>>)

\* no title leads back to itself along the links that the loop follows:
\* every set of titles holds one with no link into the set
Acyclic(w) ==
    \A S \in (SUBSET IDs) \ {{}} :
        \E t \in S :
            \A l \in Range(DropBadSelf(w.header[<<"en", t>>], t)) : l \notin S

\* one language, headers that link to themselves, to bad titles, twice to
\* one title and, when the budget is at most 2 pages, back; a budget up to
\* one more than the pages there are. These are the calls that return: the
\* loop of line 34 turns for ever on a cycle whose pages are fewer than
\* max_pages, its list of connections growing at every turn
ConnectionInputs ==
    {in \in {<<[starting_point |-> "A", max_pages |-> mp, lang |-> "en"], w>> :
                mp \in 1..(MaxPages + 1),
                w \in Wikis(EnPages, RawLinks(EnPages), MaxHeaderLinks, {}, 0)} :
        in[1].max_pages <= 2 \/ Acyclic(in[2])}

InitConnections ==
    \E in \in ConnectionInputs :
        /\ NotBuilding(in[2])
        /\ args = in[1]
        /\ pc = "get_connections"
        /\ visited = {}
        /\ connections = <<>>
        /\ page_queue = <<in[1].starting_point>>
        /\ expanded = <<>>
        /\ vertices = {}
        /\ links_Q = <<>>
        /\ translation_lists = <<>>

\* random.sample(links, k): k entries at distinct places, in any order
Samples(links, k) ==
    {[j \in 1..k |-> links[f[j]]] :
        f \in {g \in [1..k -> 1..Len(links)] :
                 \A x, y \in 1..k : x # y => g[x] # g[y]}}

\* lines 39-46: the links of the header, bad titles and self-links dropped
HeaderLinks(lang, title) == DropBadSelf(wiki.header[<<lang, title>>], title)

\* lines 34-55: one turn of the loop
ExpandPage ==
    /\ pc = "get_connections"
    /\ page_queue # <<>>
    /\ Cardinality(visited) < args.max_pages
    /\ LET page == Head(page_queue)
           seen == visited \cup {page}
           all == HeaderLinks(args.lang, page)
           left_pages == args.max_pages - Cardinality(seen)
       IN \E links \in (IF left_pages < Len(all)
                        THEN Samples(all, left_pages) ELSE {all}) :
            /\ visited' = seen
            /\ connections' =
                 connections \o [k \in 1..Len(links) |-> <<page, links[k]>>]
            /\ page_queue' = Tail(page_queue) \o links
            /\ expanded' = Append(expanded, page)
    /\ UNCHANGED <<build, wiki, pc, args, vertices, links_Q, translation_lists>>

\* lines 34 and 57: the loop ends, return visited, connections
ReturnConnections ==
    /\ pc = "get_connections"
    /\ ~(page_queue # <<>> /\ Cardinality(visited) < args.max_pages)
    /\ pc' = "returned"
    /\ UNCHANGED <<build, wiki, calls>>

NextConnections == ExpandPage \/ ReturnConnections

SpecConnections == InitConnections /\ [][NextConnections]_vars

(* --------- excavator.get_connection_pages (excavator.py 55-107) ------- *)

\* excavator.get_links(page, site)
get_links(lang, title) == DropBadSelf(wiki.header[<<lang, title>>], title)

\* the language of the crawl: langs[selected_lang], the index counted from 1
site == args.langs[args.selected_lang]

\* two languages, a crawl of en, a start page with up to MaxWikiLinks links
ExcavatorInputs ==
    {<<[starting_point |-> "A", selected_lang |-> 1, langs |-> <<"en", "fr">>,
        max_pages |-> mp], w>> :
        mp \in 1..MaxPages,
        w \in Wikis(Pages, RawLinks(EnPages), MaxWikiLinks,
                    {e \in LangLinks(Pages) : e[1] \in EnPages}, 1)}

\* lines 65-74
InitExcavator ==
    \E in \in ExcavatorInputs :
        /\ NotBuilding(in[2])
        /\ args = in[1]
        /\ pc = "start_links"
        /\ vertices = {in[1].starting_point}
        /\ connections = <<>>
        /\ links_Q = DropBadSelf(in[2].header[<<in[1].langs[in[1].selected_lang],
                                               in[1].starting_point>>],
                                 in[1].starting_point)
        /\ translation_lists = <<>>
        /\ visited = {}
        /\ page_queue = <<>>
        /\ expanded = <<>>

\* lines 76-80: the links of the starting point that are new, in order
RECURSIVE NewLinks(_, _)
NewLinks(links, vs) ==
    IF links = <<>> THEN <<>>
    ELSE IF Head(links) \in vs THEN NewLinks(Tail(links), vs)
         ELSE <<Head(links)>> \o NewLinks(Tail(links), vs \cup {Head(links)})

\* lines 76-80
AddStartLinks ==
    /\ pc = "start_links"
    /\ LET new == NewLinks(links_Q, vertices)
       IN /\ vertices' = vertices \cup Range(new)
          /\ connections' =
               connections \o [k \in 1..Len(new) |-> <<args.starting_point, new[k]>>]
    /\ pc' = "expand"
    /\ UNCHANGED <<build, wiki, args, links_Q, translation_lists, visited,
                   page_queue, expanded>>

\* lines 82-97: one turn of the loop
ExpandLink ==
    /\ pc = "expand"
    /\ links_Q # <<>>
    /\ Cardinality(vertices) <= args.max_pages
    /\ LET current_link == Head(links_Q)
           all == get_links(site, current_link)
           slice_idx == Min(Len(all), args.max_pages - Cardinality(vertices))
           links == IF slice_idx = Len(all) THEN all ELSE SubSeq(all, 1, slice_idx)
       IN /\ links_Q' = IF slice_idx = Len(all)
                        THEN Tail(links_Q) \o SelectSeq(all, LAMBDA l : l \notin vertices)
                        ELSE <<>>
          /\ vertices' = vertices \cup Range(links)
          /\ connections' =
               connections \o [k \in 1..Len(links) |-> <<current_link, links[k]>>]
    /\ UNCHANGED <<build, wiki, pc, args, translation_lists, visited, page_queue,
                   expanded>>

\* lines 102-104 for one vertex: the titles of its interlanguage links into
\* the other languages of langs, then its own title
TranslationTitles(v) ==
    LET there == SelectSeq(wiki.langlinks[<<site, v>>],
                           LAMBDA l : l[1] \in Range(args.langs) /\ l[1] # site)
    IN [k \in 1..Len(there) |-> there[k][2]] \o <<v>>

\* lines 82 and 99-107: the loop ends, the translations are listed in the
\* iteration order of the set, return
ListTranslations ==
    /\ pc = "expand"
    /\ ~(links_Q # <<>> /\ Cardinality(vertices) <= args.max_pages)
    /\ \E order \in Perms(vertices) :
         translation_lists' = [k \in 1..Len(order) |-> TranslationTitles(order[k])]
    /\ pc' = "returned"
    /\ UNCHANGED <<build, wiki, args, vertices, links_Q, connections, visited,
                   page_queue, expanded>>

NextExcavator == AddStartLinks \/ ExpandLink \/ ListTranslations

SpecExcavator == InitExcavator /\ [][NextExcavator]_vars

(* ------------------------------ the claims ---------------------------- *)

Assembled == pc \in {"perturb", "done"}
Crawled == UNION {vertices_in_langs[l] : l \in DOMAIN vertices_in_langs}
Titles == {p[2] : p \in DOMAIN wiki.header}
Blue(g) == {e \in EdgeSet(g) : g.color[e] = "blue"}
Red(g) == {e \in EdgeSet(g) : g.color[e] = "red"}
\* the same graph: the same vertices with the same attributes, the same
\* edges with the same colours
SameGraph(g, h) ==
    /\ NodeSet(g) = NodeSet(h)
    /\ g.lang = h.lang
    /\ g.color = h.color
PairSets ==
    {{translation_pairs[k][1], translation_pairs[k][2]} :
        k \in 1..Len(translation_pairs)}
LastCrawled == vertices_in_langs[languages[selected_lang - 1]]

\* C1: the vertex set of a language never holds more than max_pages_per_lang
\* titles, at every step of its BFS and once it is saved
C1_CrawlWithinBudget ==
    /\ Cardinality(vertices_in_lang) <= max_pages_per_lang
    /\ \A l \in DOMAIN vertices_in_langs :
         Cardinality(vertices_in_langs[l]) <= max_pages_per_lang

\* the budget of at least two pages is used up while an unseen link waits
C1_Witness ==
    /\ pc = "links"
    /\ link_titles # <<>>
    /\ Head(link_titles) \notin vertices_in_lang
    /\ max_pages_per_lang >= 2
    /\ Cardinality(vertices_in_lang) = max_pages_per_lang

\* C2: when the crawl of a language is complete (BFS and follow-up pass),
\* every red edge it recorded has both endpoints in the vertex set of that
\* language
C2_RedEdgesInsideCrawl ==
    (pc = "crawl" /\ selected_lang > 1) =>
        \A k \in (red_mark + 1)..Len(red_edges) :
            red_edges[k][1] \in LastCrawled /\ red_edges[k][2] \in LastCrawled

\* the crawl of the second language recorded an edge and one of its vertices
\* links to a page that was not crawled
C2_Witness ==
    /\ pc = "crawl"
    /\ selected_lang = 3
    /\ Len(red_edges) > red_mark
    /\ \E v \in LastCrawled :
         Range(get_section_links(languages[2], v)) \ LastCrawled # {}

\* C3: no edge of the assembled graph has equal endpoints
C3_NoSelfLoops ==
    Assembled => \A e \in EdgeSet(assembled) : Cardinality(e) = 2

\* C4: for distinct A, B, C, if the translation stage produced A-B and B-C
\* (any orientation, any place of the list), A-C is a blue edge of the
\* assembled graph; if it produced exactly (A,B), (B,C), the blue edges are
\* exactly A-B, B-C, A-C
C4_TransitiveStep ==
    Assembled =>
        \A a, b, c \in Titles :
            (a # b /\ b # c /\ a # c) =>
                /\ ({a, b} \in PairSets /\ {b, c} \in PairSets)
                      => {a, c} \in Blue(assembled)
                /\ translation_pairs = << <<a, b>>, <<b, c>> >>
                      => Blue(assembled) = {{a, b}, {b, c}, {a, c}}

\* the translation stage produced exactly (A,B), (B,C) and A-C is blue
C4_Witness ==
    /\ Assembled
    /\ \E a, b, c \in Titles :
         /\ a # b /\ b # c /\ a # c
         /\ translation_pairs = << <<a, b>>, <<b, c>> >>
         /\ {a, c} \in Blue(assembled)

\* the titles joined to a title of S by a chain of translation pairs
RECURSIVE Component(_)
Component(S) ==
    LET more == S \cup UNION {e \in PairSets : e \cap S # {}}
    IN IF more = S THEN S ELSE Component(more)

\* C5: any two distinct titles joined by a chain of translation pairs are
\* joined by a blue edge of the assembled graph
C5_CliquePerComponent ==
    Assembled =>
        \A x, y \in Titles :
            (x # y /\ y \in Component({x})) => {x, y} \in Blue(assembled)

LangWhenTranslated(v) ==
    LET ks == {k \in 1..NumCrawls : v \in vertices_in_langs[languages[k]]}
    IN languages[CHOOSE k \in ks : \A j \in ks : j <= k]

C7_ZeroChancesIdentity ==
    (Assembled /\ edge_inversion_chance = 0 /\ edge_removal_chance = 0) =>
        SameGraph(G, assembled)

\* the pass went over a red and a blue edge with both chances 0
C7_Witness ==
    /\ pc = "done"
    /\ edge_inversion_chance = 0
    /\ edge_removal_chance = 0
    /\ Red(assembled) # {}
    /\ Blue(assembled) # {}

\* C8: two runs that assemble the same graph and make the same draws return
\* the same graph
C8_SameSeedSameGraph ==
    (/\ pc = "done"
     /\ run = 2
     /\ rng.seeded
     /\ rng.draws = first_run.draws
     /\ SameGraph(assembled, first_run.assembled)) => SameGraph(G, first_run.G)

\* C9: with removal_chance 0 the pass keeps the vertices and the edge set and
\* changes colours only, between red and blue; with inversion_chance 0 no
\* edge is added and the edges that remain keep their colour
C9_PerturbationFrame ==
    Assembled =>
        /\ NodeSet(G) = NodeSet(assembled)
        /\ edge_removal_chance = 0 =>
             /\ EdgeSet(G) = EdgeSet(assembled)
             /\ \A e \in EdgeSet(G) : G.color[e] \in {"red", "blue"}
        /\ edge_inversion_chance = 0 =>
             /\ EdgeSet(G) \subseteq EdgeSet(assembled)
             /\ \A e \in EdgeSet(G) : G.color[e] = assembled.color[e]

\* an edge changed its colour in a pass that removes nothing
C9_Witness ==
    /\ pc = "done"
    /\ edge_removal_chance = 0
    /\ edge_inversion_chance > 0
    /\ \E e \in EdgeSet(assembled) : G.color[e] # assembled.color[e]

\* C10: the scenario en, fr / A, B / A -> C / A = B returns the vertices A, C
\* (en) and B (fr), the red edge A-C, the blue edge A-B and nothing else
C10_Scenario ==
    (<<kwargs, wiki>> \in ScenarioInputs /\ pc = "done") =>
        /\ NodeSet(G) = {"A", "B", "C"}
        /\ G.lang = [n \in {"A", "B", "C"} |-> IF n = "B" THEN "fr" ELSE "en"]
        /\ EdgeSet(G) = {{"A", "C"}, {"A", "B"}}
        /\ G.color[{"A", "C"}] = "red"
        /\ G.color[{"A", "B"}] = "blue"

\* the scenario ran to its end
C10_Witness ==
    /\ <<kwargs, wiki>> \in ScenarioInputs
    /\ pc = "done"
    /\ Len(edge_list) = 2

\* the unordered pair of an entry of a list of pairs
Pair(p) == {p[1], p[2]}
\* how many entries of list(G.edges) stand for the pair e
Copies(g, e) ==
    Cardinality({k \in 1..Len(edges(g)) : Pair(edges(g)[k]) = e})
\* how many times v is listed among the neighbours of u
Listed(g, u, v) == Cardinality({k \in 1..Len(g.adj[u]) : g.adj[u][k] = v})

\* C11: a pair recorded in red_edges and in blue_edges, in any orientation,
\* is one edge of the assembled graph and that edge is blue; no pair of the
\* two lists, however often it was inserted, is more than one edge
C11_BlueOverRedOneEdge ==
    Assembled =>
        /\ \A r \in 1..Len(red_edges) : \A b \in 1..Len(blue_edges) :
              Pair(red_edges[r]) = Pair(blue_edges[b]) =>
                 /\ Pair(red_edges[r]) \in EdgeSet(assembled)
                 /\ assembled.color[Pair(red_edges[r])] = "blue"
        /\ \A k \in 1..Len(red_edges \o blue_edges) :
              LET p == (red_edges \o blue_edges)[k]
              IN /\ Copies(assembled, Pair(p)) = 1
                 /\ Listed(assembled, p[1], p[2]) = 1
                 /\ Listed(assembled, p[2], p[1]) = 1
        /\ Len(edges(assembled)) = Cardinality(EdgeSet(assembled))

\* a pair was recorded red one way round and blue the other way round, and
\* red more than once
C11_Witness ==
    /\ Assembled
    /\ \E r1, r2 \in 1..Len(red_edges) : \E b \in 1..Len(blue_edges) :
         /\ r1 # r2
         /\ red_edges[r1] = red_edges[r2]
         /\ red_edges[r1][1] # red_edges[r1][2]
         /\ blue_edges[b] = <<red_edges[r1][2], red_edges[r1][1]>>

\* C12: every title crawled in a language is a vertex of the assembled graph
\* whose 'lang' attribute is that language
C12_LangOfEveryCrawl ==
    Assembled =>
        \A l \in DOMAIN vertices_in_langs : \A v \in vertices_in_langs[l] :
            v \in NodeSet(assembled) /\ assembled.lang[v] = l

\* C13: no title is popped from the queue twice in the crawl of a language,
\* at most max_pages_per_lang titles are popped, and every BFS that starts
\* comes to its end
C13_ExpandedOnceAndTerminates ==
    /\ [](/\ \A j, k \in 1..Len(expansions) :
               j # k => expansions[j] # expansions[k]
          /\ Len(expansions) <= max_pages_per_lang)
    /\ (pc = "bfs") ~> (pc = "crawl")

\* two pages that link to each other were both expanded under a budget that
\* was not used up
C13_Witness ==
    /\ pc = "crawl"
    /\ Len(expansions) = 2
    /\ Cardinality(LastCrawled) < max_pages_per_lang
    /\ expansions[2] \in Range(get_section_links(languages[selected_lang - 1], expansions[1]))
    /\ expansions[1] \in Range(get_section_links(languages[selected_lang - 1], expansions[2]))

\* C14: get_connections pops no title from its queue twice
C14_NoPageExpandedTwice ==
    \A j, k \in 1..Len(expanded) : j # k => expanded[j] # expanded[k]

\* C15: get_connection_pages returns at most max_pages vertices
C15_VerticesWithinMaxPages ==
    pc = "returned" => Cardinality(vertices) <= args.max_pages

\* the other colour
Inverse(c) == IF c = "red" THEN "blue" ELSE "red"
\* what was decided for the k-th edge of the snapshot: the draw 2k - 1 is
\* for its inversion, the draw 2k for its removal
WasInverted(k) == Bernoulli(rng.draws[2 * k - 1], edge_inversion_chance)
WasRemoved(k) == Bernoulli(rng.draws[2 * k], edge_removal_chance)

\* C16: the pass walks list(G.edges) as it was at assembly, each edge once
\* and in order, two draws per edge; an edge not yet reached is in the graph
\* with the colour it was assembled with, whatever was removed before it; an
\* edge that was reached is gone if its removal was drawn, and otherwise has
\* its colour inverted or not as its inversion was drawn
C16_SnapshotPass ==
    Assembled =>
        /\ edge_list = edges(assembled)
        /\ \A j, k \in 1..Len(edge_list) :
              j # k => Pair(edge_list[j]) # Pair(edge_list[k])
        /\ i \in 1..(Len(edge_list) + 1)
        /\ pc = "done" => i = Len(edge_list) + 1
        /\ Len(rng.draws) = 2 * (i - 1)
        /\ \A k \in 1..Len(edge_list) :
              LET e == Pair(edge_list[k])
              IN IF k >= i
                 THEN e \in EdgeSet(G) /\ G.color[e] = assembled.color[e]
                 ELSE IF WasRemoved(k) THEN e \notin EdgeSet(G)
                 ELSE /\ e \in EdgeSet(G)
                      /\ G.color[e] = IF WasInverted(k)
                                      THEN Inverse(assembled.color[e])
                                      ELSE assembled.color[e]

\* an edge was inverted and removed, and a later edge of the snapshot was
\* inverted and kept
C16_Witness ==
    /\ pc = "done"
    /\ \E j, k \in 1..Len(edge_list) :
         /\ j < k
         /\ WasInverted(j) /\ WasRemoved(j)
         /\ WasInverted(k) /\ ~WasRemoved(k)

\* the pairs of the red edges the crawls recorded, of all red edges recorded
\* and of the blue edges
CrawlRed == {Pair(crawl_result.red_edges[k]) : k \in 1..Len(crawl_result.red_edges)}
AllRed == {Pair(red_edges[k]) : k \in 1..Len(red_edges)}
AllBlue == {Pair(blue_edges[k]) : k \in 1..Len(blue_edges)}
\* the red edges recorded after the crawls
LaterRed == SubSeq(red_edges, Len(crawl_result.red_edges) + 1, Len(red_edges))
\* the translations looked up: <<language, title>>
Translated ==
    UNION {{<<l, t>> : t \in Range(translations[l])} : l \in DOMAIN translations}

LastRed == {red_edges[k] : k \in (red_mark + 1)..Len(red_edges)}
\* the place of the first l among the links of v, 0 if there is none
PlaceOf(l, links) ==
    IF l \in Range(links)
    THEN CHOOSE k \in 1..Len(links) :
            links[k] = l /\ \A j \in 1..(k - 1) : links[j] # l
    ELSE 0

\* C18: when the crawl of a language is complete, every link from a crawled
\* title to a crawled title is recorded as the red edge (v, l)
C18_LinksAmongCrawledRecorded ==
    (pc = "crawl" /\ selected_lang > 1) =>
        \A v \in LastCrawled :
            \A l \in Range(get_section_links(languages[selected_lang - 1], v)) :
                l \in LastCrawled => <<v, l>> \in LastRed

\* the budget was used up; a crawled title that was never popped links to a
\* crawled title, and a link beyond the cap of max_links leads to a crawled
\* title: both edges are on record
C18_Witness ==
    /\ pc = "crawl"
    /\ selected_lang > 1
    /\ Cardinality(LastCrawled) = max_pages_per_lang
    /\ \E v \in LastCrawled \ Range(expansions) : \E l \in LastCrawled :
         /\ l \in Range(get_section_links(languages[selected_lang - 1], v))
         /\ <<v, l>> \in LastRed
    /\ \E v \in LastCrawled : \E l \in LastCrawled :
         /\ PlaceOf(l, get_section_links(languages[selected_lang - 1], v)) > max_bfs_links
         /\ <<v, l>> \in LastRed

====
